---- MODULE Spec2Model ----
(***************************************************************************)
(* The three Icinga/Nagios probes of UranusBytes/icinga-plugins:           *)
(*   check_aws_backups.py, check_aws_guardduty.py, check_aws_cloudwatch.py *)
(* Each run is _main(): _get_args, _get_aws_client, _get_check_result,     *)
(* _analyze_result, _print_result, inside the try/except of __main__.      *)
(* The AWS services are the environment: every call either raises or       *)
(* returns a response drawn from a bounded set.                            *)
(***************************************************************************)
EXTENDS Integers, Sequences, FiniteSets, TLC

VARIABLES
  probe,            \* which script is running
  pc,               \* position of the run inside _main / __main__
  _args,            \* the argparse namespace (warning, critical, comparator)
  _request_args,    \* the request dict, as far as its 'NextToken' key goes
  requests,         \* history: the request dicts the listing loops sent, by detector
  pages,            \* history: the responses the listing loops received, by detector
  _collected,       \* _backup_jobs (backups) / _detector_findings (guardduty)
  _detectors,       \* history: the list_detectors response
  _detector_ids,    \* guardduty: the list _get_detector_ids returned
  _detector,        \* guardduty: index of the for-loop over _detector_ids
  _findings_details,\* guardduty: hydrated findings of the detectors done so far
  _check_result,    \* what _get_check_result returned
  _result_idx,      \* number of records the loop of _analyze_result has consumed
  _result_counts,   \* the dict of bucket counts
  _analyzed_result, \* what _analyze_result returned
  stdout,           \* the lines written to sys.stdout
  raised,           \* the exception travelling up to the try of __main__
  exit_code,        \* <<>> while running, <<code>> once the process ended
  argv,             \* history: the command line, as far as argparse judges it
  fault             \* history: the stage in which the environment raised

vars == <<probe, pc, _args, _request_args, requests, pages, _collected, _detectors,
          _detector_ids, _detector, _findings_details, _check_result, _result_idx,
          _result_counts, _analyzed_result, stdout, raised, exit_code, argv, fault>>

----------------------------------------------------------------------------
\* Bounds of the model

\* pages the listing calls of one run are served before the provider stops answering
MaxPages == 2
\* items on one page
MaxPageLen == 1
\* thresholds are drawn from 0..MaxThreshold (backups, cloudwatch), 1..MaxThreshold (guardduty)
MaxThreshold == 2
\* detector identifiers on the page list_detectors returns
MaxDetectors == 2
\* datapoints get_metric_statistics returns
MaxDatapoints == 1
\* records handed to _analyze_result in SpecAnalyze
MaxRecords == 2

----------------------------------------------------------------------------
\* Constants of the scripts

_EXIT_OK == <<0, "OK">>
_EXIT_WARNING == <<1, "WARNING">>
_EXIT_CRITICAL == <<2, "CRITICAL">>
_EXIT_UNKNOWN == <<3, "UNKNOWN">>

\* argparse's parser.error() ends with sys.exit(2)
ArgparseExit == 2

\* the empty string '' as a continuation token; tokens of real pages are >= 2
EmptyToken == 0

Probes == {"backups", "guardduty", "cloudwatch"}

Comparators == {"gt", "ge", "lt", "le", "eq", "ne"}

\* the states a backup job is drawn from
JobStates == {"COMPLETED", "FAILED", "ABORTED"}

NoException == [type |-> "none", code |-> 0]

NoArgs == [warning |-> 0, critical |-> 0, comparator |-> "none"]

\* a dict without keys
EmptyDict == [k \in {} |-> 0]

fetchVars == <<_request_args, requests, pages, _collected, _detectors, _detector_ids,
               _detector, _findings_details>>

analyzeVars == <<_check_result, _result_idx, _result_counts, _analyzed_result>>

----------------------------------------------------------------------------
\* Exceptions, _print_result and the handlers

\* a mutant of ExceptException: a bare "except:" clause, which also catches SystemExit
ExceptBaseException(type) == type \in {"Exception", "SystemExit"}

\* a mutant of ExceptException: no handler at all, the exception leaves the script
ExceptNothing(type) == FALSE

\* "except Exception as err": catches what derives from Exception; SystemExit,
\* which sys.exit() raises, derives from BaseException and passes through
ExceptException(type) == type = "Exception"

\* the tag each script's _print_result writes in front of the status
ProbeTag(p) ==
  CASE p = "backups" -> "AWS-BACKUP"
    [] p = "guardduty" -> "AWS-BACKUP"
    [] p = "cloudwatch" -> "CLOUDWATCH"

\* the text sys.stdout.write receives: '<TAG> {status} - {info_text}'
OutputLine(p, _result) ==
  [tag |-> ProbeTag(p), status |-> _result[1][2], info_text |-> _result[2]]

\* a mutant of SysExit: sys.exit(0) whatever the level
SysExitZero(_result) == [type |-> "SystemExit", code |-> 0]

\* sys.exit(_result[0][0])
SysExit(_result) == [type |-> "SystemExit", code |-> _result[1][1]]

\* _print_result(_result): one write to stdout, then sys.exit raises SystemExit,
\* which travels up to the try of __main__
_print_result(_result) ==
  /\ stdout' = Append(stdout, OutputLine(probe, _result))
  /\ raised' = SysExit(_result)
  /\ pc' = "__main__"

\* an exception raised inside the try of a stage function whose handler is
\*   except Exception as err: _print_result([_EXIT_UNKNOWN, message])
StageRaise(exc, message) ==
  IF ExceptException(exc.type)
    THEN _print_result(<<_EXIT_UNKNOWN, [text |-> message]>>)
    ELSE /\ raised' = exc
         /\ pc' = "__main__"
         /\ UNCHANGED stdout

\* an exception raised in _main outside any stage's try
MainRaise(exc) ==
  /\ raised' = exc
  /\ pc' = "__main__"
  /\ UNCHANGED stdout

AnException == [type |-> "Exception", code |-> 1]

\* dict[key] raises KeyError when the dict lacks the key
KeyError(dict, key) == key \notin DOMAIN dict

\* the try/except of __main__ receives what _main raised: an Exception is caught
\* and reported as UNKNOWN (the SystemExit of that _print_result ends the process),
\* a SystemExit ends the process with its code
__main__ ==
  /\ pc = "__main__"
  /\ IF ExceptException(raised.type)
       THEN /\ stdout' = Append(stdout, OutputLine(probe, <<_EXIT_UNKNOWN, [text |-> "Unknown error in main"]>>))
            /\ exit_code' = <<_EXIT_UNKNOWN[1]>>
       ELSE /\ exit_code' = <<raised.code>>
            /\ UNCHANGED stdout
  /\ pc' = "exited"
  /\ UNCHANGED <<probe, _args, fetchVars, analyzeVars, raised, argv, fault>>

----------------------------------------------------------------------------
\* _get_args and _get_aws_client

\* the values argparse accepts for -w and -c
Thresholds(p) == IF p = "guardduty" THEN 1..MaxThreshold ELSE 0..MaxThreshold

\* the comparator names a command line may carry; "xx" is outside the choices
ComparatorNames(p) == IF p = "cloudwatch" THEN Comparators \cup {"xx"} ELSE {"none"}

\* choices=['gt', 'ge', 'lt', 'le', 'eq', 'ne'] of the -C option
ComparatorAccepted(p, name) == p = "cloudwatch" => name \in Comparators

FirstFetchPc(p) == IF p = "guardduty" THEN "_get_detector_ids" ELSE "_get_check_result"

_get_args ==
  /\ pc = "_get_args"
  /\ \/ \E w \in Thresholds(probe), c \in Thresholds(probe), name \in ComparatorNames(probe) :
          /\ ComparatorAccepted(probe, name)
          /\ argv' = [comparator |-> name, wellformed |-> TRUE]
          /\ _args' = [warning |-> w, critical |-> c, comparator |-> name]
          /\ pc' = "_get_aws_client"
          /\ UNCHANGED <<stdout, raised, fault>>
     \/ \* parse_args() rejects the command line: parser.error() calls sys.exit(2)
        \E name \in ComparatorNames(probe), wf \in BOOLEAN :
          /\ ~(wf /\ ComparatorAccepted(probe, name))
          /\ argv' = [comparator |-> name, wellformed |-> wf]
          /\ fault' = "_get_args"
          /\ StageRaise([type |-> "SystemExit", code |-> ArgparseExit], "Unknown error parsing arguments")
          /\ UNCHANGED _args
  /\ UNCHANGED <<probe, fetchVars, analyzeVars, exit_code>>

_get_aws_client ==
  /\ pc = "_get_aws_client"
  /\ \/ /\ pc' = FirstFetchPc(probe)
        /\ UNCHANGED <<stdout, raised, fault>>
     \/ \* boto3.Session / session.client raises
        /\ fault' = "_get_aws_client"
        /\ StageRaise(AnException, "Unknown error getting AWS client")
  /\ UNCHANGED <<probe, _args, fetchVars, analyzeVars, exit_code, argv>>

----------------------------------------------------------------------------
\* Pagination helpers shared by the listing loops

\* a mutant of Extend: the list is assigned, not extended
ExtendAssigns(list, items) == items

\* list.extend(items)
Extend(list, items) == list \o items

\* _request_args['NextToken'] = _response['NextToken']
WithNextToken(_response) == [NextToken |-> _response.NextToken]

\* the analysis stage starts: _main binds _check_result and _analyze_result
\* creates its _result_counts dict
InitialCounts(p, a) ==
  IF p = "guardduty"
    THEN [Critical |-> [Severity |-> a.critical, Count |-> 0],
          Warning |-> [Severity |-> a.warning, Count |-> 0]]
    ELSE EmptyDict

Return(result) ==
  /\ _check_result' = result
  /\ _result_idx' = 0
  /\ _result_counts' = InitialCounts(probe, _args)
  /\ pc' = "_analyze_result"
  /\ UNCHANGED _analyzed_result

----------------------------------------------------------------------------
\* check_aws_backups.py: _get_check_result

\* the job lists page n may carry; a job is identified by its place in the chain
BackupJobsOn(n) ==
  UNION {{[j \in 1..k |-> [BackupJobId |-> <<n, j>>, State |-> st[j]]] : st \in [1..k -> JobStates]} :
         k \in 0..MaxPageLen}

\* what list_backup_jobs may answer as page n: the last page of a result set has
\* no NextToken key or an empty one, any other page names page n + 1
BackupResponses(n) ==
  {[BackupJobs |-> js] : js \in BackupJobsOn(n)}
    \cup {[BackupJobs |-> js, NextToken |-> t] : js \in BackupJobsOn(n), t \in {EmptyToken, n + 1}}

\* if 'NextToken' in _response
BackupsHasNext(_response) == "NextToken" \in DOMAIN _response

\* one pass of the while loop. The service answers any page or raises; what it
\* answers to a request that carries '' as NextToken is not fixed by the source,
\* so that request too is answered by any page or by an error
list_backup_jobs ==
  /\ probe = "backups"
  /\ pc = "_get_check_result"
  /\ requests' = Append(requests, [detector |-> _detector, args |-> _request_args])
  /\ \/ /\ Len(pages) < MaxPages
        /\ \E _response \in BackupResponses(Len(pages) + 1) :
             /\ pages' = Append(pages, [detector |-> _detector, response |-> _response])
             /\ _collected' = Extend(_collected, _response.BackupJobs)
             /\ IF BackupsHasNext(_response)
                  THEN /\ _request_args' = WithNextToken(_response)
                       /\ UNCHANGED <<pc, analyzeVars>>
                  ELSE /\ Return(_collected')
                       /\ UNCHANGED _request_args
        /\ UNCHANGED <<stdout, raised, fault>>
     \/ \* the call raises (transport, authorization, a rejected token)
        /\ fault' = "_get_check_result"
        /\ StageRaise(AnException, "Unknown error getting backup job list")
        /\ UNCHANGED <<pages, _collected, _request_args, analyzeVars>>
  /\ UNCHANGED <<probe, _args, _detectors, _detector_ids, _detector, _findings_details,
                 exit_code, argv>>

----------------------------------------------------------------------------
\* check_aws_backups.py: _analyze_result

\* the dict update of the counting loop
CountState(counts, state) ==
  [s \in DOMAIN counts \cup {state} |->
     IF s = state THEN (IF state \in DOMAIN counts THEN counts[state] + 1 ELSE 1)
                  ELSE counts[s]]

\* a mutant of BackupsVerdict: ABORTED jobs are counted as failures too
BackupsVerdictAnyFailure(a, counts) ==
  LET bad == (IF "FAILED" \in DOMAIN counts THEN counts["FAILED"] ELSE 0)
               + (IF "ABORTED" \in DOMAIN counts THEN counts["ABORTED"] ELSE 0)
  IN IF bad > a.critical THEN <<_EXIT_CRITICAL, [count |-> counts]>>
     ELSE IF bad > a.warning THEN <<_EXIT_WARNING, [count |-> counts]>>
     ELSE <<_EXIT_OK, [count |-> counts]>>

\* the if / elif / else on the FAILED bucket
BackupsVerdict(a, counts) ==
  IF "FAILED" \in DOMAIN counts /\ counts["FAILED"] > a.critical
    THEN <<_EXIT_CRITICAL, [count |-> counts]>>
    ELSE IF "FAILED" \in DOMAIN counts /\ counts["FAILED"] > a.warning
      THEN <<_EXIT_WARNING, [count |-> counts]>>
      ELSE <<_EXIT_OK, [count |-> counts]>>

backups_analyze_result ==
  /\ probe = "backups"
  /\ pc = "_analyze_result"
  /\ \/ /\ _result_idx < Len(_check_result)
        /\ ~KeyError(_check_result[_result_idx + 1], "State")
        /\ _result_counts' = CountState(_result_counts, _check_result[_result_idx + 1].State)
        /\ _result_idx' = _result_idx + 1
        /\ UNCHANGED <<pc, _analyzed_result, stdout, raised, fault>>
     \/ \* _result['State'] raises KeyError, outside any stage's try
        /\ _result_idx < Len(_check_result)
        /\ KeyError(_check_result[_result_idx + 1], "State")
        /\ fault' = "_analyze_result"
        /\ MainRaise(AnException)
        /\ UNCHANGED <<_result_idx, _result_counts, _analyzed_result>>
     \/ /\ _result_idx = Len(_check_result)
        /\ _analyzed_result' = BackupsVerdict(_args, _result_counts)
        /\ pc' = "_print_result"
        /\ UNCHANGED <<_result_idx, _result_counts, stdout, raised, fault>>
  /\ UNCHANGED <<probe, _args, fetchVars, _check_result, exit_code, argv>>

----------------------------------------------------------------------------
\* check_aws_guardduty.py: _get_check_result

\* what list_detectors may answer: up to MaxDetectors identifiers, and a
\* NextToken when the account has more detectors than this page holds
\* (_get_detector_ids reads DetectorIds only)
DetectorResponses ==
  {[DetectorIds |-> [i \in 1..k |-> i]] : k \in 0..MaxDetectors}
    \cup {[DetectorIds |-> [i \in 1..k |-> i], NextToken |-> 2] : k \in 1..MaxDetectors}

\* what list_findings may answer as page n of a detector whose earlier pages
\* held the finding identifiers up to base
FindingResponses(n, base) ==
  {[FindingIds |-> [i \in 1..k |-> base + i]] : k \in 0..MaxPageLen}
    \cup {[FindingIds |-> [i \in 1..k |-> base + i], NextToken |-> t] :
            k \in 0..MaxPageLen, t \in {EmptyToken, n + 1}}

\* the findings the provider holds, by kind; Severity is held in half units
\* (GuardDuty severities are floats such as 8.5, the thresholds are ints)
FindingCatalogue ==
  << [Severity |-> 4, Type |-> "Recon:EC2/Portscan",
      Service |-> [Archived |-> FALSE, Action |-> [NetworkConnectionAction |-> [ConnectionDirection |-> "OUTBOUND"]]]],
     [Severity |-> 5, Type |-> "Recon:EC2/Portscan",
      Service |-> [Archived |-> TRUE, Action |-> [NetworkConnectionAction |-> [ConnectionDirection |-> "OUTBOUND"]]]],
     [Severity |-> 5, Type |-> "UnauthorizedAccess:EC2/MaliciousIPCaller.Custom",
      Service |-> [Archived |-> FALSE, Action |-> [NetworkConnectionAction |-> [ConnectionDirection |-> "INBOUND"]]]],
     [Severity |-> 5, Type |-> "UnauthorizedAccess:EC2/MaliciousIPCaller.Custom",
      Service |-> [Archived |-> FALSE, Action |-> [NetworkConnectionAction |-> [ConnectionDirection |-> "OUTBOUND"]]]] >>

\* what get_findings answers for one identifier
FindingDetails(id) == [Id |-> id] @@ FindingCatalogue[((id - 1) % Len(FindingCatalogue)) + 1]

\* the responses and requests of the listing loop of detector d
PagesOf(d) == SelectSeq(pages, LAMBDA e : e.detector = d)

RequestsOf(d) == SelectSeq(requests, LAMBDA e : e.detector = d)

\* if 'NextToken' in _response and _response['NextToken'] != ''
GuardDutyHasNext(_response) ==
  "NextToken" \in DOMAIN _response /\ _response.NextToken # EmptyToken

\* the for loop over _detector_ids reaches detector d: fresh _detector_findings
\* and _request_args; past the last detector _get_findings returns
ForDetector(d, ids, details) ==
  IF d <= Len(ids)
    THEN /\ _detector' = d
         /\ _collected' = <<>>
         /\ _request_args' = EmptyDict
         /\ pc' = "list_findings"
         /\ UNCHANGED analyzeVars
    ELSE /\ Return(details)
         /\ UNCHANGED <<_detector, _collected, _request_args>>

_get_detector_ids ==
  /\ probe = "guardduty"
  /\ pc = "_get_detector_ids"
  /\ \/ \E _response \in DetectorResponses :
          /\ _detectors' = _response
          /\ _detector_ids' = _response.DetectorIds
          /\ ForDetector(1, _response.DetectorIds, _findings_details)
          /\ UNCHANGED <<stdout, raised, fault>>
     \/ /\ fault' = "_get_check_result"
        /\ StageRaise(AnException, "Unknown error getting findings")
        /\ UNCHANGED <<_detectors, _detector_ids, _detector, _collected, _request_args, analyzeVars>>
  /\ UNCHANGED <<probe, _args, requests, pages, _findings_details, exit_code, argv>>

list_findings ==
  /\ probe = "guardduty"
  /\ pc = "list_findings"
  /\ requests' = Append(requests, [detector |-> _detector, args |-> _request_args])
  /\ \/ /\ Len(pages) < MaxPages
        /\ \E _response \in FindingResponses(Len(PagesOf(_detector)) + 1,
                                             Len(_findings_details) + Len(_collected)) :
             /\ pages' = Append(pages, [detector |-> _detector, response |-> _response])
             /\ _collected' = Extend(_collected, _response.FindingIds)
             /\ IF GuardDutyHasNext(_response)
                  THEN /\ _request_args' = WithNextToken(_response)
                       /\ UNCHANGED pc
                  ELSE /\ pc' = "get_findings"
                       /\ UNCHANGED _request_args
        /\ UNCHANGED <<stdout, raised, fault>>
     \/ /\ fault' = "_get_check_result"
        /\ StageRaise(AnException, "Unknown error getting findings")
        /\ UNCHANGED <<pages, _collected, _request_args>>
  /\ UNCHANGED <<probe, _args, _detectors, _detector_ids, _detector, _findings_details,
                 analyzeVars, exit_code, argv>>

get_findings ==
  /\ probe = "guardduty"
  /\ pc = "get_findings"
  /\ \/ LET _response == [Findings |-> [i \in 1..Len(_collected) |-> FindingDetails(_collected[i])]]
        IN /\ _findings_details' = Extend(_findings_details, _response.Findings)
           /\ ForDetector(_detector + 1, _detector_ids, _findings_details')
           /\ UNCHANGED <<stdout, raised, fault>>
     \/ /\ fault' = "_get_check_result"
        /\ StageRaise(AnException, "Unknown error getting findings")
        /\ UNCHANGED <<_findings_details, _detector, _collected, _request_args, analyzeVars>>
  /\ UNCHANGED <<probe, _args, requests, pages, _detectors, _detector_ids, exit_code, argv>>

----------------------------------------------------------------------------
\* check_aws_guardduty.py: _analyze_result

_ignore_finding(_result) ==
  /\ _result.Type = "UnauthorizedAccess:EC2/MaliciousIPCaller.Custom"
  /\ _result.Service.Action.NetworkConnectionAction.ConnectionDirection = "INBOUND"

\* a mutant of SeverityAbove: greater-or-equal
SeverityAtLeast(severity, threshold) == severity >= 2 * threshold

\* _result['Severity'] > threshold, the severity being held in half units
SeverityAbove(severity, threshold) == severity > 2 * threshold

\* a mutant of CountFinding: the warning test is an "if" of its own
CountFindingTwice(a, counts, _result) ==
  LET c1 == IF SeverityAbove(_result.Severity, a.critical)
              THEN [counts EXCEPT !.Critical.Count = @ + 1] ELSE counts
  IN IF _result.Service.Archived \/ _ignore_finding(_result) THEN counts
     ELSE IF SeverityAbove(_result.Severity, a.warning)
            THEN [c1 EXCEPT !.Warning.Count = @ + 1] ELSE c1

\* a mutant of CountFinding: the archived flag is not looked at
CountFindingArchivedToo(a, counts, _result) ==
  IF _ignore_finding(_result) THEN counts
  ELSE IF SeverityAbove(_result.Severity, a.critical)
         THEN [counts EXCEPT !.Critical.Count = @ + 1]
         ELSE IF SeverityAbove(_result.Severity, a.warning)
                THEN [counts EXCEPT !.Warning.Count = @ + 1]
                ELSE counts

\* one pass of the for loop over _check_result
CountFinding(a, counts, _result) ==
  IF _result.Service.Archived THEN counts
  ELSE IF _ignore_finding(_result) THEN counts
  ELSE IF SeverityAbove(_result.Severity, a.critical)
         THEN [counts EXCEPT !.Critical.Count = @ + 1]
         ELSE IF SeverityAbove(_result.Severity, a.warning)
                THEN [counts EXCEPT !.Warning.Count = @ + 1]
                ELSE counts

\* a mutant of GuardDutyVerdict: the warning bucket is tested first
GuardDutyVerdictWarningFirst(counts) ==
  IF counts.Warning.Count > 0 THEN <<_EXIT_WARNING, [count |-> counts]>>
  ELSE IF counts.Critical.Count > 0 THEN <<_EXIT_CRITICAL, [count |-> counts]>>
  ELSE <<_EXIT_OK, [count |-> counts]>>

\* the if / elif / else on the two buckets
GuardDutyVerdict(counts) ==
  IF counts.Critical.Count > 0 THEN <<_EXIT_CRITICAL, [count |-> counts]>>
  ELSE IF counts.Warning.Count > 0 THEN <<_EXIT_WARNING, [count |-> counts]>>
  ELSE <<_EXIT_OK, [count |-> counts]>>

guardduty_analyze_result ==
  /\ probe = "guardduty"
  /\ pc = "_analyze_result"
  /\ \/ /\ _result_idx < Len(_check_result)
        /\ ~KeyError(_check_result[_result_idx + 1], "Severity")
        /\ _result_counts' = CountFinding(_args, _result_counts, _check_result[_result_idx + 1])
        /\ _result_idx' = _result_idx + 1
        /\ UNCHANGED <<pc, _analyzed_result, stdout, raised, fault>>
     \/ \* the format() of the debug line reads _result['Severity'] first, before
        \* the archived test: KeyError, outside any stage's try
        /\ _result_idx < Len(_check_result)
        /\ KeyError(_check_result[_result_idx + 1], "Severity")
        /\ fault' = "_analyze_result"
        /\ MainRaise(AnException)
        /\ UNCHANGED <<_result_idx, _result_counts, _analyzed_result>>
     \/ /\ _result_idx = Len(_check_result)
        /\ _analyzed_result' = GuardDutyVerdict(_result_counts)
        /\ pc' = "_print_result"
        /\ UNCHANGED <<_result_idx, _result_counts, stdout, raised, fault>>
  /\ UNCHANGED <<probe, _args, fetchVars, _check_result, exit_code, argv>>

----------------------------------------------------------------------------
\* check_aws_cloudwatch.py: _get_check_result and _analyze_result

\* the values a datapoint's statistic is drawn from
MetricValues == 0..(MaxThreshold + 1)

\* the datapoints get_metric_statistics may return: with the statistic asked
\* for (Average), or without it
Datapoints ==
  {[Average |-> v, Unit |-> "Percent"] : v \in MetricValues} \cup {[Unit |-> "Percent"]}

\* what get_metric_statistics may answer
MetricResponses ==
  {[Datapoints |-> dp] : dp \in UNION {[1..k -> Datapoints] : k \in 0..MaxDatapoints}}

get_metric_statistics ==
  /\ probe = "cloudwatch"
  /\ pc = "_get_check_result"
  /\ \/ \E _response \in MetricResponses :
          /\ Return(_response.Datapoints)
          /\ UNCHANGED <<stdout, raised, fault>>
     \/ \* _build_dimensions or the call raises
        /\ fault' = "_get_check_result"
        /\ StageRaise(AnException, "Unknown error getting cloudwatch metric")
        /\ UNCHANGED analyzeVars
  /\ UNCHANGED <<probe, _args, fetchVars, exit_code, argv>>

\* a mutant of Comparator: gt and ge exchanged
ComparatorSwapped(name, a, b) ==
  CASE name = "gt" -> a >= b
    [] name = "ge" -> a > b
    [] name = "lt" -> a < b
    [] name = "le" -> a <= b
    [] name = "eq" -> a = b
    [] name = "ne" -> a # b

\* getattr(operator, _args.comparator)(a, b)
Comparator(name, a, b) ==
  CASE name = "gt" -> a > b
    [] name = "ge" -> a >= b
    [] name = "lt" -> a < b
    [] name = "le" -> a <= b
    [] name = "eq" -> a = b
    [] name = "ne" -> a # b

\* the if / elif / else on _check_result[0]
CloudwatchVerdict(a, datapoint) ==
  LET txt == [metric_value |-> datapoint.Average, metric_unit |-> datapoint.Unit]
  IN IF Comparator(a.comparator, datapoint.Average, a.critical) THEN <<_EXIT_CRITICAL, txt>>
     ELSE IF Comparator(a.comparator, datapoint.Average, a.warning) THEN <<_EXIT_WARNING, txt>>
     ELSE <<_EXIT_OK, txt>>

cloudwatch_analyze_result ==
  /\ probe = "cloudwatch"
  /\ pc = "_analyze_result"
  /\ IF Len(_check_result) = 0 \/ KeyError(_check_result[1], "Average")
       THEN \* _check_result[0] raises IndexError, _check_result[0][_args.statistic]
            \* raises KeyError, outside any stage's try
            /\ fault' = "_analyze_result"
            /\ MainRaise(AnException)
            /\ UNCHANGED _analyzed_result
       ELSE /\ _analyzed_result' = CloudwatchVerdict(_args, _check_result[1])
            /\ pc' = "_print_result"
            /\ UNCHANGED <<stdout, raised, fault>>
  /\ UNCHANGED <<probe, _args, fetchVars, _check_result, _result_idx, _result_counts,
                 exit_code, argv>>

----------------------------------------------------------------------------
\* _main: the final _print_result(_analyzed_result)

main_print_result ==
  /\ pc = "_print_result"
  /\ _print_result(_analyzed_result)
  /\ UNCHANGED <<probe, _args, fetchVars, analyzeVars, exit_code, argv, fault>>

----------------------------------------------------------------------------
\* The runs

Init ==
  /\ probe \in Probes
  /\ pc = "_get_args"
  /\ _args = NoArgs
  /\ _request_args = EmptyDict
  /\ requests = <<>>
  /\ pages = <<>>
  /\ _collected = <<>>
  /\ _detectors = EmptyDict
  /\ _detector_ids = <<>>
  /\ _detector = 0
  /\ _findings_details = <<>>
  /\ _check_result = <<>>
  /\ _result_idx = 0
  /\ _result_counts = EmptyDict
  /\ _analyzed_result = <<>>
  /\ stdout = <<>>
  /\ raised = NoException
  /\ exit_code = <<>>
  /\ argv = EmptyDict
  /\ fault = "none"

Next ==
  \/ _get_args
  \/ _get_aws_client
  \/ list_backup_jobs
  \/ backups_analyze_result
  \/ _get_detector_ids
  \/ list_findings
  \/ get_findings
  \/ guardduty_analyze_result
  \/ get_metric_statistics
  \/ cloudwatch_analyze_result
  \/ main_print_result
  \/ __main__

Spec == Init /\ [][Next]_vars

----------------------------------------------------------------------------
\* The analysis stage alone, on any list of records _get_check_result may return

\* severities, in half units, at and just above the two thresholds
Severities(a) == {2 * a.warning, 2 * a.warning + 1, 2 * a.critical, 2 * a.critical + 1}

\* the fields of a finding the exclusion tests read
FindingProfiles ==
  { [Type |-> "Recon:EC2/Portscan",
     Service |-> [Archived |-> FALSE, Action |-> [NetworkConnectionAction |-> [ConnectionDirection |-> "OUTBOUND"]]]],
    [Type |-> "Recon:EC2/Portscan",
     Service |-> [Archived |-> FALSE, Action |-> [NetworkConnectionAction |-> [ConnectionDirection |-> "INBOUND"]]]],
    [Type |-> "Recon:EC2/Portscan",
     Service |-> [Archived |-> TRUE, Action |-> [NetworkConnectionAction |-> [ConnectionDirection |-> "OUTBOUND"]]]],
    [Type |-> "UnauthorizedAccess:EC2/MaliciousIPCaller.Custom",
     Service |-> [Archived |-> FALSE, Action |-> [NetworkConnectionAction |-> [ConnectionDirection |-> "INBOUND"]]]],
    [Type |-> "UnauthorizedAccess:EC2/MaliciousIPCaller.Custom",
     Service |-> [Archived |-> FALSE, Action |-> [NetworkConnectionAction |-> [ConnectionDirection |-> "OUTBOUND"]]]] }

\* the findings handed to the loop: every profile at every severity, and the
\* archived profile and a plain one without the Severity field
FindingKinds(a) ==
  {[Severity |-> sv] @@ pr : sv \in Severities(a), pr \in FindingProfiles}
    \cup {pr \in FindingProfiles :
            /\ pr.Type = "Recon:EC2/Portscan"
            /\ pr.Service.Action.NetworkConnectionAction.ConnectionDirection = "OUTBOUND"}

\* a backup job in state st, or without the State field
BackupJob(id, st) ==
  IF st \in JobStates THEN [BackupJobId |-> id, State |-> st] ELSE [BackupJobId |-> id]

\* the lists of records the fetch stage of probe p may have returned
AnalyzeInputs(p, a) ==
  IF p = "guardduty"
    THEN UNION {{[i \in 1..k |-> [Id |-> i] @@ f[i]] : f \in [1..k -> FindingKinds(a)]} :
                k \in 0..MaxRecords}
  ELSE IF p = "backups"
    THEN UNION {{[i \in 1..k |-> BackupJob(<<1, i>>, st[i])] : st \in [1..k -> JobStates \cup {"(none)"}]} :
                k \in 0..(MaxRecords + 1)}
    ELSE {_response.Datapoints : _response \in MetricResponses}

InitAnalyze ==
  /\ probe \in Probes
  /\ pc = "_analyze_result"
  /\ _args \in [warning : Thresholds(probe), critical : Thresholds(probe),
                comparator : {name \in ComparatorNames(probe) : ComparatorAccepted(probe, name)}]
  /\ argv = [comparator |-> _args.comparator, wellformed |-> TRUE]
  /\ _check_result \in AnalyzeInputs(probe, _args)
  /\ _result_idx = 0
  /\ _result_counts = InitialCounts(probe, _args)
  /\ _analyzed_result = <<>>
  /\ _request_args = EmptyDict
  /\ requests = <<>>
  /\ pages = <<>>
  /\ _collected = <<>>
  /\ _detectors = EmptyDict
  /\ _detector_ids = <<>>
  /\ _detector = 0
  /\ _findings_details = <<>>
  /\ stdout = <<>>
  /\ raised = NoException
  /\ exit_code = <<>>
  /\ fault = "none"

NextAnalyze ==
  \/ backups_analyze_result
  \/ guardduty_analyze_result
  \/ cloudwatch_analyze_result
  \/ main_print_result
  \/ __main__

SpecAnalyze == InitAnalyze /\ [][NextAnalyze]_vars

----------------------------------------------------------------------------
\* Properties

\* the level named in the line written to stdout
Level(line) == line.status

\* the fixed numeric code of a level
CodeOf(level) ==
  CASE level = "OK" -> 0
    [] level = "WARNING" -> 1
    [] level = "CRITICAL" -> 2
    [] level = "UNKNOWN" -> 3

\* C1: when the fetch stage raises (first page, a later page, or the details
\* call), exactly one line is written, its level is UNKNOWN and it carries no
\* counts, the process ends with code 3, and the analysis stage never ran: the
\* records collected so far reach neither _check_result nor _result_counts.
C1_FetchErrorIsUnknown ==
  fault = "_get_check_result" =>
    /\ pc \in {"__main__", "exited"}
    /\ Len(stdout) = 1
    /\ Level(stdout[1]) = "UNKNOWN"
    /\ DOMAIN stdout[1].info_text = {"text"}
    /\ _check_result = <<>>
    /\ _result_idx = 0
    /\ _result_counts = EmptyDict
    /\ _analyzed_result = <<>>
    /\ raised = [type |-> "SystemExit", code |-> 3]
    /\ pc = "exited" => exit_code = <<3>>

\* C1 witness: the details call of the second detector raised after the first
\* detector's findings had been hydrated and the second's identifiers listed
C1_Witness ==
  /\ probe = "guardduty"
  /\ pc = "exited"
  /\ fault = "_get_check_result"
  /\ _findings_details # <<>>
  /\ _collected # <<>>
  /\ exit_code = <<3>>

\* C2: once the arguments are parsed, stdout never holds more than one line, and
\* a run that has ended wrote exactly one line and left with the numeric code
\* of the level that line names.
C2_ExactlyOneVerdict ==
  /\ Len(stdout) <= 1
  /\ (pc = "exited" /\ fault # "_get_args") =>
       /\ Len(stdout) = 1
       /\ Level(stdout[1]) \in {"OK", "WARNING", "CRITICAL", "UNKNOWN"}
       /\ exit_code = <<CodeOf(Level(stdout[1]))>>

\* C2 witness: the AWS client could not be built; the stage's own handler
\* reported UNKNOWN and the run ended
C2_Witness ==
  /\ pc = "exited"
  /\ fault = "_get_aws_client"
  /\ Len(stdout) = 1
  /\ Level(stdout[1]) = "UNKNOWN"
  /\ exit_code = <<3>>

\* C3 (as claimed): a comparator name outside the six is rejected before any
\* fetch, and the run ends with a single UNKNOWN line and exit code 3.
C3_InvalidComparatorIsUnknown ==
  (pc = "exited" /\ probe = "cloudwatch" /\ argv.comparator \notin Comparators) =>
    /\ requests = <<>>
    /\ _check_result = <<>>
    /\ Len(stdout) = 1
    /\ Level(stdout[1]) = "UNKNOWN"
    /\ exit_code = <<3>>

\* the items of a chain of responses, page after page
RECURSIVE Flatten(_, _)
Flatten(ps, key) ==
  IF ps = <<>> THEN <<>>
  ELSE Flatten(SubSeq(ps, 1, Len(ps) - 1), key) \o ps[Len(ps)].response[key]

\* a finished listing: one request per page, the first without a token, each
\* later one with the token of the page before it, every page but the last
\* carrying a token, and the result the concatenation of the pages
ListingFollowsChain(ps, rs, key, result) ==
  /\ Len(ps) >= 1
  /\ Len(rs) = Len(ps)
  /\ rs[1].args = EmptyDict
  /\ \A i \in 1..(Len(ps) - 1) :
       /\ "NextToken" \in DOMAIN ps[i].response
       /\ rs[i + 1].args = [NextToken |-> ps[i].response.NextToken]
  /\ result = Flatten(ps, key)

\* C4: when the backup-jobs loop returns, and when the finding-ID loop of a
\* detector ends, the loop has issued one request per page, passed each page's
\* token in the next request, stopped on a page without a continuation token,
\* and holds the concatenation of all pages' items, in page order.
C4_PaginationConcatenates ==
  /\ (probe = "backups" /\ pc = "_analyze_result" /\ _result_idx = 0) =>
       /\ ListingFollowsChain(PagesOf(0), RequestsOf(0), "BackupJobs", _check_result)
       /\ "NextToken" \notin DOMAIN pages[Len(pages)].response
  /\ (probe = "guardduty" /\ pc = "get_findings") =>
       /\ ListingFollowsChain(PagesOf(_detector), RequestsOf(_detector), "FindingIds", _collected)
       /\ \/ "NextToken" \notin DOMAIN pages[Len(pages)].response
          \/ pages[Len(pages)].response.NextToken = EmptyToken

\* C4 witness: the finding-ID listing of a detector ended after two pages that
\* both carried an identifier, the first naming the second by a token
C4_Witness ==
  /\ probe = "guardduty"
  /\ pc = "get_findings"
  /\ Len(PagesOf(_detector)) = 2
  /\ Len(_collected) = 2
  /\ PagesOf(_detector)[1].response.NextToken # EmptyToken

\* the response carries no continuation: the key is absent or the token is ''
EndOfResultSet(_response) ==
  "NextToken" \notin DOMAIN _response \/ _response.NextToken = EmptyToken

\* C5 (as claimed): in every probe, after a page whose token is absent or the
\* empty string no further page request is issued by that listing loop.
C5_EmptyTokenEndsEveryListing ==
  \A d \in 0..Len(_detector_ids) :
    \A i \in 1..Len(PagesOf(d)) :
      EndOfResultSet(PagesOf(d)[i].response) => Len(RequestsOf(d)) <= i

----------------------------------------------------------------------------
\* Properties of the analysis stage

Critical == _result_counts.Critical.Count

Warning == _result_counts.Warning.Count

\* C6: in the findings probe the verdict is CRITICAL exactly when the Critical
\* count is positive, WARNING exactly when it is zero and the Warning count is
\* positive, OK exactly when both are zero.
C6_VerdictFromBuckets ==
  (probe = "guardduty" /\ pc = "_print_result") =>
    LET level == _analyzed_result[1][2]
    IN /\ Critical >= 0 /\ Warning >= 0
       /\ level = "CRITICAL" <=> Critical > 0
       /\ level = "WARNING" <=> (Critical = 0 /\ Warning > 0)
       /\ level = "OK" <=> (Critical = 0 /\ Warning = 0)
       /\ _analyzed_result[1][1] = CodeOf(level)

\* C6 witness: both buckets are positive and the verdict is CRITICAL
C6_Witness ==
  /\ probe = "guardduty"
  /\ pc = "_print_result"
  /\ Critical > 0
  /\ Warning > 0
  /\ _analyzed_result[1] = _EXIT_CRITICAL

\* the number of records in state FAILED
Failed(records) == Cardinality({i \in 1..Len(records) : records[i].State = "FAILED"})

\* the archived flag, or the noise filter: type MaliciousIPCaller.Custom with an
\* INBOUND connection
IsExcluded(r) ==
  \/ r.Service.Archived
  \/ /\ r.Type = "UnauthorizedAccess:EC2/MaliciousIPCaller.Custom"
     /\ r.Service.Action.NetworkConnectionAction.ConnectionDirection = "INBOUND"

\* the loop of _analyze_result consumes one finding
FindingStep ==
  /\ probe = "guardduty"
  /\ pc = "_analyze_result"
  /\ _result_idx' = _result_idx + 1

\* C7: thresholds are compared with strict greater-than. Backups: a FAILED count
\* equal to critical does not give CRITICAL, one equal to warning does not give
\* WARNING, a count of critical + 1 gives CRITICAL and one of warning + 1 gives
\* WARNING or CRITICAL. Findings: a finding whose severity equals the critical
\* (warning) threshold leaves the Critical (Warning) count as it is; a counted
\* finding strictly above critical adds one to Critical, one strictly above
\* warning adds one to Warning or, when it is also above critical, to Critical.
C7_StrictThresholds ==
  [][ /\ (probe = "backups" /\ pc = "_analyze_result" /\ pc' = "_print_result") =>
           LET F == Failed(_check_result)
               level == _analyzed_result'[1][2]
           IN /\ F = _args.critical => level # "CRITICAL"
              /\ F = _args.warning => level # "WARNING"
              /\ F = _args.critical + 1 => level = "CRITICAL"
              /\ F = _args.warning + 1 => level \in {"WARNING", "CRITICAL"}
      /\ FindingStep =>
           LET r == _check_result[_result_idx + 1]
           IN /\ r.Severity = 2 * _args.critical => Critical' = Critical
              /\ r.Severity = 2 * _args.warning => Warning' = Warning
              /\ (~IsExcluded(r) /\ r.Severity > 2 * _args.critical) => Critical' = Critical + 1
              /\ (~IsExcluded(r) /\ r.Severity > 2 * _args.warning) =>
                   Critical' + Warning' = Critical + Warning + 1
    ]_vars

\* C7 witness: a counted finding whose severity equals the critical threshold
\* and exceeds the warning threshold went to the Warning bucket
C7_Witness ==
  /\ probe = "guardduty"
  /\ pc = "_analyze_result"
  /\ _result_idx = 1
  /\ ~IsExcluded(_check_result[1])
  /\ _check_result[1].Severity = 2 * _args.critical
  /\ _args.warning < _args.critical
  /\ Critical = 0
  /\ Warning = 1

\* the standard ordering relation of each comparator name
Relation(name, v, t) ==
  \/ name = "gt" /\ v > t
  \/ name = "ge" /\ v >= t
  \/ name = "lt" /\ v < t
  \/ name = "le" /\ v <= t
  \/ name = "eq" /\ v = t
  \/ name = "ne" /\ v # t

\* C8: in the metric probe, with v the statistic of the first datapoint, the
\* verdict is CRITICAL iff the comparator holds of (v, critical), WARNING iff it
\* does not and holds of (v, warning), OK iff it holds of neither.
C8_ComparatorVerdict ==
  (probe = "cloudwatch" /\ pc = "_print_result") =>
    LET v == _check_result[1].Average
        level == _analyzed_result[1][2]
        crit == Relation(_args.comparator, v, _args.critical)
        warn == Relation(_args.comparator, v, _args.warning)
    IN /\ _args.comparator \in Comparators
       /\ level = "CRITICAL" <=> crit
       /\ level = "WARNING" <=> (~crit /\ warn)
       /\ level = "OK" <=> (~crit /\ ~warn)
       /\ _analyzed_result[1][1] = CodeOf(level)
       /\ _analyzed_result[2].metric_value = v

\* C8 witness: comparator ge, the value reaches the warning threshold but not
\* the critical one, and the verdict is WARNING
C8_Witness ==
  /\ probe = "cloudwatch"
  /\ pc = "_print_result"
  /\ _args.comparator = "ge"
  /\ _check_result[1].Average >= _args.warning
  /\ _check_result[1].Average < _args.critical
  /\ _analyzed_result[1] = _EXIT_WARNING

\* the findings among the first n of the list that are not excluded
Kept(records, n) == SelectSeq(SubSeq(records, 1, n), LAMBDA r : ~IsExcluded(r))

\* C9: archived findings and findings matching the noise filter count in no
\* bucket, whatever their severity: at every point of the loop the two counts,
\* and at its end the verdict, are those of the list with these findings removed.
C9_ExcludedFindingsCountNowhere ==
  (probe = "guardduty" /\ pc \in {"_analyze_result", "_print_result"}) =>
    LET kept == Kept(_check_result, _result_idx)
        crit == Cardinality({i \in DOMAIN kept : kept[i].Severity > 2 * _args.critical})
        warn == Cardinality({i \in DOMAIN kept : /\ ~(kept[i].Severity > 2 * _args.critical)
                                                 /\ kept[i].Severity > 2 * _args.warning})
    IN /\ Critical = crit
       /\ Warning = warn
       /\ pc = "_print_result" =>
            _analyzed_result[1][2] = (IF crit > 0 THEN "CRITICAL" ELSE IF warn > 0 THEN "WARNING" ELSE "OK")

\* C9 witness: an archived finding and a noise finding, both above the critical
\* threshold, were the whole input and the verdict is OK
C9_Witness ==
  /\ probe = "guardduty"
  /\ pc = "_print_result"
  /\ Len(_check_result) = 2
  /\ _check_result[1].Service.Archived
  /\ ~_check_result[2].Service.Archived
  /\ IsExcluded(_check_result[2])
  /\ \A i \in 1..2 : _check_result[i].Severity > 2 * _args.critical
  /\ _analyzed_result[1] = _EXIT_OK

\* C10: each pass of the loop over a finding that is not excluded changes at
\* most one count, by exactly one, testing critical first: above critical only
\* Critical grows, otherwise above warning only Warning grows, otherwise
\* neither; the counts stay non-negative and their sum never exceeds the
\* number of findings consumed that are not excluded.
C10_OneBucketPerFinding ==
  [][ FindingStep =>
        LET r == _check_result[_result_idx + 1]
            aboveCritical == r.Severity > 2 * _args.critical
            aboveWarning == r.Severity > 2 * _args.warning
        IN /\ (~IsExcluded(r) /\ aboveCritical) =>
                (Critical' = Critical + 1 /\ Warning' = Warning)
           /\ (~IsExcluded(r) /\ ~aboveCritical /\ aboveWarning) =>
                (Critical' = Critical /\ Warning' = Warning + 1)
           /\ (~IsExcluded(r) /\ ~aboveCritical /\ ~aboveWarning) =>
                (Critical' = Critical /\ Warning' = Warning)
           /\ Critical' >= 0
           /\ Warning' >= 0
           /\ Critical' + Warning' <= Len(Kept(_check_result, _result_idx'))
    ]_vars

\* C10 witness: a counted finding above both thresholds added one to Critical
\* and nothing to Warning
C10_Witness ==
  /\ probe = "guardduty"
  /\ pc = "_analyze_result"
  /\ _result_idx = 1
  /\ ~IsExcluded(_check_result[1])
  /\ _check_result[1].Severity > 2 * _args.critical
  /\ _check_result[1].Severity > 2 * _args.warning
  /\ Critical = 1
  /\ Warning = 0

\* The tag that names each check family by its provider and capability; the
\* findings family has none of its own in the code, so only the tags the other
\* two families are known by are listed.
FamilyOfTag(tag) ==
  CASE tag = "AWS-BACKUP" -> "backups"
    [] tag = "CLOUDWATCH" -> "cloudwatch"
    [] OTHER -> "guardduty"

\* C11: every line written has the shape tag, level, message, and its tag
\* names the family of the probe that wrote it, so that two probes of
\* different families never write the same tag.
C11_TagNamesOwnFamily ==
  \A i \in 1..Len(stdout) :
    /\ DOMAIN stdout[i] = {"tag", "status", "info_text"}
    /\ stdout[i].status \in {"OK", "WARNING", "CRITICAL", "UNKNOWN"}
    /\ FamilyOfTag(stdout[i].tag) = probe

\* C12: the detector listing is paginated like every other listing: the fetch
\* hands records to the classification only after the detector listing was read
\* to its last page, so that the detectors of every page had their findings
\* listed and hydrated; a detector page announcing a further page is never the
\* last one read.
C12_DetectorListingFollowsPagination ==
  (probe = "guardduty" /\ fault = "none" /\ pc \in {"_analyze_result", "_print_result"}) =>
    /\ ~GuardDutyHasNext(_detectors)
    /\ \A d \in 1..Len(_detectors.DetectorIds) : Len(RequestsOf(d)) >= 1

\* the fetch returned records and the classification cannot read them: no
\* first datapoint or none with the statistic (metric probe), a job without
\* State (backup probe), a finding without Severity (findings probe)
ClassificationFails ==
  /\ fault \in {"none", "_analyze_result"}
  /\ pc \in {"_analyze_result", "_print_result", "__main__", "exited"}
  /\ CASE probe = "cloudwatch" ->
            Len(_check_result) = 0 \/ "Average" \notin DOMAIN _check_result[1]
       [] probe = "backups" ->
            \E i \in 1..Len(_check_result) : "State" \notin DOMAIN _check_result[i]
       [] probe = "guardduty" ->
            \E i \in 1..Len(_check_result) : "Severity" \notin DOMAIN _check_result[i]

\* C13: when the classification fails on fetched records, no verdict is
\* computed or printed: nothing but UNKNOWN is ever written, and the run ends
\* with exactly one line, of level UNKNOWN, written by the handler of __main__,
\* and exit code 3.
C13_ClassificationFailureIsUnknown ==
  ClassificationFails =>
    /\ _analyzed_result = <<>>
    /\ pc # "_print_result"
    /\ \A i \in 1..Len(stdout) : Level(stdout[i]) = "UNKNOWN"
    /\ pc = "exited" =>
         /\ fault = "_analyze_result"
         /\ Len(stdout) = 1
         /\ stdout[1].info_text = [text |-> "Unknown error in main"]
         /\ exit_code = <<CodeOf("UNKNOWN")>>

\* C13 witness: a backup job without State came after enough FAILED jobs for
\* CRITICAL; the run ended with the UNKNOWN line of __main__
C13_Witness ==
  /\ probe = "backups"
  /\ pc = "exited"
  /\ ClassificationFails
  /\ _result_idx >= 1
  /\ "FAILED" \in DOMAIN _result_counts
  /\ _result_counts["FAILED"] > _args.critical
  /\ Level(stdout[1]) = "UNKNOWN"
  /\ exit_code = <<3>>

\* C14: the backup probe's level is a function of the number F of FAILED
\* records and the two thresholds alone: CRITICAL iff F > critical, WARNING iff
\* warning < F <= critical, OK otherwise; so records in other states and the
\* order of the records do not matter, and with critical <= warning no WARNING
\* is produced. The line written carries that level.
C14_FailedCountDecides ==
  (probe = "backups" /\ _analyzed_result # <<>>) =>
    LET F == Failed(_check_result)
        level == _analyzed_result[1][2]
    IN /\ level = "CRITICAL" <=> F > _args.critical
       /\ level = "WARNING" <=> (_args.warning < F /\ F <= _args.critical)
       /\ level = "OK" <=> (F <= _args.warning /\ F <= _args.critical)
       /\ _args.critical <= _args.warning => level # "WARNING"
       /\ Len(stdout) >= 1 => Level(stdout[1]) = level

\* C14 witness: ABORTED jobs in number above both thresholds, after a FAILED
\* one that is not; the verdict is OK
C14_Witness ==
  /\ probe = "backups"
  /\ pc = "_print_result"
  /\ Len(_check_result) = 3
  /\ _check_result[1].State = "FAILED"
  /\ _check_result[2].State = "ABORTED"
  /\ _check_result[3].State = "ABORTED"
  /\ _args.warning = 1
  /\ _args.critical = 1
  /\ _analyzed_result[1] = _EXIT_OK

====
